---- MODULE Spec2Model ----
(***************************************************************************)
(* The retrieveDocs request pipeline of the FileSearch MCP server          *)
(* (src/src/server.ts): bounded retry with exponential backoff and jitter, *)
(* per-attempt 30 s deadline, error classification (toMcpError) and chunk  *)
(* extraction from file_search_call results.                               *)
(*                                                                         *)
(* Representation of JavaScript values:                                    *)
(*  - a string that the code inspects (an Error's message) is a sequence   *)
(*    of pieces whose concatenation is the string; messages that come from *)
(*    the environment are given one character per piece, so that           *)
(*    String.prototype.includes is computed exactly; the fixed messages of *)
(*    the code are single pieces;                                          *)
(*  - an optional JSON field is a record [t, v] with t in                  *)
(*    {"undef", "null", "val"};                                            *)
(*  - scores are in thousandths (900 stands for 0.9).                      *)
(***************************************************************************)
EXTENDS Integers, Sequences, FiniteSets, TLC

\* ------------------------------------------------------------------ bounds
\* number of invocation slots of the model
NumInvocations == 2
\* clock ticks that make up the 30 s deadline of one attempt
DeadlineTicks == 2
\* most output items in a response body
MaxItems == 2
\* most result items in one output item
MaxResults == 2

\* ------------------------------------------------------- program constants
maxAttempts_MutFour == 3 + 1

maxAttempts == 3
baseDelay == 500
TimeoutMs == 30000
JitterSpan == 201
JitterOffset == 100
RateLimitStatus == 429
UpstreamStatusMin == 500

Invocations == 1..NumInvocations

\* ------------------------------------------------------------ strings
Includes(s, needle) ==
    \E k \in 0..(Len(s) - Len(needle)) :
        SubSeq(s, k + 1, k + Len(needle)) = needle

FetchFailed == <<"f", "e", "t", "c", "h", " ", "f", "a", "i", "l", "e", "d">>

MsgTimeout == <<"OpenAI API request timed out after 30 seconds.">>
MsgRateLimit == <<"OpenAI API rate limit exceeded.">>
MsgUpstream == <<"OpenAI API returned an upstream server error.">>
MsgStatus(status) ==
    <<"OpenAI API request failed with status ", ToString(status), ".">>
MsgUnknown == <<"An unknown error occurred.">>
MsgFallthrough == <<"OpenAI request failed after multiple retries.">>
BodyPlaceholder == <<"Could not read error response body.">>
MsgNetworkDefault == <<"Network error during OpenAI API request.">>
MsgServerDefault == <<"An unexpected server error occurred.">>

\* ------------------------------------------------------------ JSON values
Field(t, v) == [t |-> t, v |-> v]
Undef(d) == Field("undef", d)
Null(d) == Field("null", d)
Val(v) == Field("val", v)

\* x ?? d
Coalesce(f, d) == IF f.t = "val" THEN f.v ELSE d

\* ------------------------------------------------------------ McpError
Codes == {"OPENAI_RATE_LIMIT", "OPENAI_UPSTREAM_ERROR", "OPENAI_NETWORK_ERROR",
          "OPENAI_TIMEOUT", "INTERNAL_SERVER_ERROR"}

RetryableCodes == {"OPENAI_RATE_LIMIT", "OPENAI_UPSTREAM_ERROR",
                   "OPENAI_NETWORK_ERROR", "OPENAI_TIMEOUT"}

\* details: undefined, {status, errorText} or a string
NoDetails == [kind |-> "undefined", status |-> 0, errorText |-> <<>>]
HttpDetails(status, errorText) ==
    [kind |-> "http", status |-> status, errorText |-> errorText]
StringDetails(str) == [kind |-> "string", status |-> 0, errorText |-> str]

McpError(code, message, details) ==
    [code |-> code, message |-> message, details |-> details]

\* the value of a variable that holds no error
NoError == McpError("none", <<>>, NoDetails)

\* ------------------------------------------------------------ faults
\* A thrown value: an Error (name, message), the Response thrown for a
\* non-2xx status (status), or any other value (str: its String() rendering).
ErrorFault(name, message) ==
    [kind |-> "Error", name |-> name, message |-> message, status |-> 0]
ResponseFault(status) ==
    [kind |-> "Response", name |-> "", message |-> <<>>, status |-> status]
OtherFault(str) ==
    [kind |-> "Other", name |-> "", message |-> str, status |-> 0]

AbortError == ErrorFault("AbortError", <<"This operation was aborted">>)

\* error.text() of a thrown Response: resolves with the text or rejects
TextRead(ok, text) == [ok |-> ok, text |-> text]

\* lines 33-38: the placeholder stays unless the body was read
ErrorTextOf_MutNoPlaceholder(read) == read.text

ErrorTextOf(read) == IF read.ok THEN read.text ELSE BodyPlaceholder

\* lines 40-59: classification of a Response by its status
ClassifyStatus_MutBoundary(status, errorText) ==
    IF status = RateLimitStatus
    THEN McpError("OPENAI_RATE_LIMIT", MsgRateLimit, HttpDetails(status, errorText))
    ELSE IF status > UpstreamStatusMin
    THEN McpError("OPENAI_UPSTREAM_ERROR", MsgUpstream, HttpDetails(status, errorText))
    ELSE McpError("INTERNAL_SERVER_ERROR", MsgStatus(status), HttpDetails(status, errorText))

ClassifyStatus(status, errorText) ==
    IF status = RateLimitStatus
    THEN McpError("OPENAI_RATE_LIMIT", MsgRateLimit, HttpDetails(status, errorText))
    ELSE IF status >= UpstreamStatusMin
    THEN McpError("OPENAI_UPSTREAM_ERROR", MsgUpstream, HttpDetails(status, errorText))
    ELSE McpError("INTERNAL_SERVER_ERROR", MsgStatus(status), HttpDetails(status, errorText))

\* lines 62-77: classification of a generic Error; the message of an Error
\* is a string, so `error.message ?? default` keeps it, the empty one included
ClassifyError_MutMessageOnly(error) ==
    IF Includes(error.message, FetchFailed)
    THEN McpError("OPENAI_NETWORK_ERROR", error.message, NoDetails)
    ELSE McpError("INTERNAL_SERVER_ERROR", error.message, NoDetails)

ClassifyError(error) ==
    IF Includes(error.message, FetchFailed) \/ error.name = "TypeError"
    THEN McpError("OPENAI_NETWORK_ERROR",
                  Coalesce(Val(error.message), MsgNetworkDefault), NoDetails)
    ELSE McpError("INTERNAL_SERVER_ERROR",
                  Coalesce(Val(error.message), MsgServerDefault), NoDetails)

\* toMcpError(error); read is the outcome of error.text(), used for a Response
toMcpError(error, read) ==
    IF error.kind = "Error" /\ error.name = "AbortError"
    THEN McpError("OPENAI_TIMEOUT", MsgTimeout, NoDetails)
    ELSE IF error.kind = "Response"
    THEN ClassifyStatus(error.status, ErrorTextOf(read))
    ELSE IF error.kind = "Error"
    THEN ClassifyError(error)
    ELSE McpError("INTERNAL_SERVER_ERROR", MsgUnknown, StringDetails(error.message))

NoRead == TextRead(FALSE, <<>>)

\* a result item: null, a primitive, or an object {id?, text?, score?}
ResultObj(id, text, score) == [t |-> "obj", id |-> id, text |-> text, score |-> score]
NullResult == [t |-> "null", id |-> Undef(""), text |-> Undef(""), score |-> Undef(0)]
FullResult == ResultObj(Val("x"), Val("hello"), Val(900))
EmptyResult == ResultObj(Undef(""), Undef(""), Undef(0))
PartialResult == ResultObj(Null(""), Val("t2"), Undef(0))
EmptyIdResult == ResultObj(Val(""), Val("t3"), Val(1))

\* a JSON value that should be a sequence: undefined, null, an array, or
\* something else (a string, a number, an object)
Arr(items) == [t |-> "arr", items |-> items]
NoArr(t) == [t |-> t, items |-> <<>>]

\* an output item: null, or an object {type, results?}
ItemObj(type, results) == [t |-> "obj", type |-> type, results |-> results]
NullItem == [t |-> "null", type |-> "", results |-> NoArr("undef")]

\* a parsed body: null, a primitive, or an object {output?}
BodyObj(output) == [t |-> "obj", output |-> output]
NullBody == [t |-> "null", output |-> NoArr("undef")]
PrimBody == [t |-> "prim", output |-> NoArr("undef")]
NoBody == [t |-> "none", output |-> NoArr("undef")]

\* ------------------------------------------------------------ chunk extraction
\* `unknown_id_${Math.random().toString(36).substring(2, 15)}`
Tokens == {"unknown_id_"} \cup {"unknown_id_k" \o ToString(k) : k \in 1..(MaxItems * MaxResults)}

MsgNullOutput == <<"Cannot read properties of null (reading 'output')">>
MsgNotIterable == <<"(responseData.output ?? []).forEach is not a function">>
MsgNullType == <<"Cannot read properties of null (reading 'type')">>
MsgNullId == <<"Cannot read properties of null (reading 'id')">>

\* the state of the extraction: the chunks pushed so far, the number of
\* Math.random() draws used, and the message of the TypeError thrown (<<>>:
\* none)
Acc(chunks, used, err) == [chunks |-> chunks, used |-> used, err |-> err]

\* lines 219-229: one chunk from one result item
PushResult_MutText(acc, r, rnd) ==
    IF acc.err # <<>> THEN acc
    ELSE IF r.t = "null" THEN Acc(acc.chunks, acc.used, MsgNullId)
    ELSE LET gen == (r.t = "prim" \/ r.id.t # "val")
             id == IF gen THEN rnd[acc.used + 1] ELSE r.id.v
             text == IF r.t = "obj" THEN Coalesce(r.text, "") ELSE ""
             score == IF r.t = "obj" THEN Coalesce(r.score, 0) ELSE 0
         IN  Acc(Append(acc.chunks, [id |-> id, text |-> id, score |-> score]),
                 IF gen THEN acc.used + 1 ELSE acc.used, <<>>)

PushResult(acc, r, rnd) ==
    IF acc.err # <<>> THEN acc
    ELSE IF r.t = "null" THEN Acc(acc.chunks, acc.used, MsgNullId)
    ELSE LET gen == (r.t = "prim" \/ r.id.t # "val")
             id == IF gen THEN rnd[acc.used + 1] ELSE r.id.v
             text == IF r.t = "obj" THEN Coalesce(r.text, "") ELSE ""
             score == IF r.t = "obj" THEN Coalesce(r.score, 0) ELSE 0
         IN  Acc(Append(acc.chunks, [id |-> id, text |-> text, score |-> score]),
                 IF gen THEN acc.used + 1 ELSE acc.used, <<>>)

RECURSIVE ForEachResult(_, _, _)
ForEachResult(acc, rs, rnd) ==
    IF rs = <<>> THEN acc
    ELSE ForEachResult(PushResult(acc, Head(rs), rnd), Tail(rs), rnd)

\* lines 213-216: the test that selects an output item
IsFileSearchCall_MutNoArrayTest(item) ==
    item.t = "obj" /\ item.type = "file_search_call" /\ item.results.t # "undef"

IsFileSearchCall_MutAnyType(item) ==
    item.t = "obj" /\ item.results.t = "arr"

IsFileSearchCall(item) ==
    item.t = "obj" /\ item.type = "file_search_call" /\ item.results.t = "arr"

\* lines 211-236: one output item
PushItem(acc, item, rnd) ==
    IF acc.err # <<>> THEN acc
    ELSE IF item.t = "null" THEN Acc(acc.chunks, acc.used, MsgNullType)
    ELSE IF IsFileSearchCall(item) THEN ForEachResult(acc, item.results.items, rnd)
    ELSE acc

RECURSIVE ForEachItem(_, _, _)
ForEachItem(acc, items, rnd) ==
    IF items = <<>> THEN acc
    ELSE ForEachItem(PushItem(acc, Head(items), rnd), Tail(items), rnd)

\* lines 205-236: (responseData.output ?? []).forEach(...)
ExtractChunks(body, rnd) ==
    IF body.t = "null" THEN Acc(<<>>, 0, MsgNullOutput)
    ELSE IF body.t # "obj" \/ body.output.t \in {"undef", "null"} THEN Acc(<<>>, 0, <<>>)
    ELSE IF body.output.t # "arr" THEN Acc(<<>>, 0, MsgNotIterable)
    ELSE ForEachItem(Acc(<<>>, 0, <<>>), body.output.items, rnd)

\* line 246: JSON.stringify(chunks): each chunk as its members in the order
\* of the object literal
JsonStringify(chunks) ==
    [k \in 1..Len(chunks) |->
        <<<<"id", chunks[k].id>>, <<"text", chunks[k].text>>, <<"score", chunks[k].score>>>>]

\* the number of Math.random() draws the extraction of body can need
RECURSIVE CountDraws(_)
CountDraws(rs) ==
    IF rs = <<>> THEN 0
    ELSE (IF Head(rs).t # "null" /\ Head(rs).id.t # "val" THEN 1 ELSE 0)
         + CountDraws(Tail(rs))

RECURSIVE DrawsOfItems(_)
DrawsOfItems(items) ==
    IF items = <<>> THEN 0
    ELSE (IF Head(items).results.t = "arr" THEN CountDraws(Head(items).results.items) ELSE 0)
         + DrawsOfItems(Tail(items))

\* the values Math.random() gives in one extraction: every draw the same, or
\* every draw another one
TokenStream(kind, n) ==
    [k \in 1..n |-> IF kind = "same" THEN "unknown_id_"
                                    ELSE "unknown_id_k" \o ToString(k)]

Draws(body) == {TokenStream(kind, DrawsOfItems(body.output.items)) : kind \in {"same", "fresh"}}

\* ------------------------------------------------------------ inputs
SeqsUpTo(S, n) == UNION {[1..k -> S] : k \in 0..n}

ResultItems == {FullResult, EmptyResult}
ResultLists ==
    SeqsUpTo(ResultItems, MaxResults) \cup {<<PartialResult>>, <<NullResult>>, <<EmptyIdResult>>}
OutputItems ==
    {ItemObj("file_search_call", Arr(l)) : l \in ResultLists}
    \cup {ItemObj("file_search_call", NoArr("undef")),
          ItemObj("file_search_call", NoArr("other")),
          ItemObj("message", Arr(<<FullResult>>)),
          NullItem}
Bodies ==
    {BodyObj(Arr(o)) : o \in SeqsUpTo(OutputItems, MaxItems)}
    \cup {BodyObj(NoArr("undef")), BodyObj(NoArr("null")), BodyObj(NoArr("other")),
          NullBody, PrimBody}

SampleBodies ==
    {NullBody,
     BodyObj(NoArr("undef")),
     BodyObj(Arr(<<ItemObj("file_search_call", Arr(<<FullResult, EmptyResult>>))>>)),
     BodyObj(Arr(<<ItemObj("message", Arr(<<FullResult>>)),
                   ItemObj("file_search_call", Arr(<<PartialResult>>))>>)),
     BodyObj(Arr(<<NullItem>>))}

\* statuses the upstream answers with; response.ok is 200..299
Statuses == {200, 204, 400, 401, 404, 429, 500, 503}
OkStatuses == {200, 204}
ResponseOk(status) == status >= 200 /\ status <= 299

\* what fetch() rejects with when the network fails
NetworkFaults ==
    {ErrorFault("TypeError", FetchFailed),
     ErrorFault("Error", <<"x", ":", " ">> \o FetchFailed),
     ErrorFault("Error", <<"b", "o", "o", "m">>),
     ErrorFault("Error", <<>>),
     ErrorFault("TypeError", <<>>)}

\* what response.json() rejects with: invalid JSON, or a body stream that breaks
ParseFaults ==
    {ErrorFault("SyntaxError", <<"Unexpected token < in JSON at position 0">>),
     ErrorFault("TypeError", <<"terminated">>)}

\* what error.text() settles with
TextReads == {TextRead(TRUE, <<"e", "r", "r">>), TextRead(TRUE, <<>>), TextRead(FALSE, <<>>)}

\* line 266: values of Math.random(), as fractions <<n, d>> of [0, 1)
RandomSamples == {<<0, 1>>, <<1, 2>>, <<999, 1000>>}

\* line 266: Math.floor(Math.random() * 201)
FloorScaled(r) == (r[1] * JitterSpan) \div r[2]

RandomDraws == {FloorScaled(r) : r \in RandomSamples}

Questions == {"", "what is alpha"}

\* ------------------------------------------------------------ state
VARIABLES
    pc,         \* where each invocation of execute is suspended
    attempt,    \* the loop variable of the retry loop
    request,    \* requestBody
    timer,      \* the attempts whose deadline timer (timeoutId) is armed
    elapsed,    \* clock ticks since the current attempt started
    fault,      \* error, the value caught by the catch block
    mcpError,   \* the McpError of the catch block
    response,   \* responseData of the attempt that returned
    returned,   \* the values execute has returned
    raised,     \* the errors execute has thrown
    log,        \* the calls, failures, sleeps and outcomes, in order
    env,        \* config.json and process.env, as the process finds them
    phase,      \* how far main has got
    exitCode,   \* the code passed to process.exit
    config      \* the AppConfig that loadConfig returned

invVars == <<pc, attempt, request, timer, elapsed, fault, mcpError, response,
             returned, raised, log>>

procVars == <<env, phase, exitCode, config>>

vars == <<invVars, procVars>>

NoFault == [kind |-> "none", name |-> "", message |-> <<>>, status |-> 0]
NoRequest == [input |-> "", vector_store_ids |-> <<>>, max_num_results |-> 0]

\* ------------------------------------------------------------ configuration
\* a vectorStoreId that config.json may hold
vectorStoreId == <<"v", "s", "_", "s", "t", "o", "r", "e">>

\* s.startsWith(prefix)
StartsWith(s, prefix) ==
    Len(s) >= Len(prefix) /\ SubSeq(s, 1, Len(prefix)) = prefix

\* config.json: missing, not JSON, or an object that may hold vectorStoreId
ConfigFile(t, id) == [t |-> t, vectorStoreId |-> id]

ConfigFiles ==
    {ConfigFile("missing", Undef(<<>>)), ConfigFile("badjson", Undef(<<>>))}
    \cup {ConfigFile("json", id) :
             id \in {Undef(<<>>), Null(<<>>), Field("number", <<>>), Val(<<>>),
                     Val(<<"s", "t", "o", "r", "e">>),
                     Val(<<"a", "v", "s", "_">>), Val(vectorStoreId)}}

\* process.env.OPENAI_API_KEY
ApiKeys == {Undef(""), Val(""), Val("sk-key")}

Envs == [file : ConfigFiles, OPENAI_API_KEY : ApiKeys]

\* config.ts lines 6-10: FileConfigSchema
FileConfigSchema_MutAnyString(file) == file.vectorStoreId.t = "val"

FileConfigSchema(file) ==
    /\ file.vectorStoreId.t = "val"
    /\ StartsWith(file.vectorStoreId.v, <<"v", "s", "_">>)

\* config.ts lines 13-18: EnvSchema
EnvSchema(e) == e.OPENAI_API_KEY.t = "val" /\ Len(e.OPENAI_API_KEY.v) >= 1

AppConfig(id, key) == [vectorStoreId |-> id, openaiApiKey |-> key]
NoConfig == AppConfig(<<>>, "")

\* config.ts lines 25-78: loadConfig returns the configuration or throws
loadConfig(e) ==
    IF e.file.t = "json" /\ FileConfigSchema(e.file) /\ EnvSchema(e)
    THEN [ok |-> TRUE,
          config |-> AppConfig(e.file.vectorStoreId.v, e.OPENAI_API_KEY.v)]
    ELSE [ok |-> FALSE, config |-> NoConfig]

Event(ev, a, code, ms) == [ev |-> ev, attempt |-> a, code |-> code, ms |-> ms]

Init ==
    /\ pc = [i \in Invocations |-> "idle"]
    /\ attempt = [i \in Invocations |-> 0]
    /\ request = [i \in Invocations |-> NoRequest]
    /\ timer = [i \in Invocations |-> {}]
    /\ elapsed = [i \in Invocations |-> 0]
    /\ fault = [i \in Invocations |-> NoFault]
    /\ mcpError = [i \in Invocations |-> NoError]
    /\ response = [i \in Invocations |-> NoBody]
    /\ returned = [i \in Invocations |-> <<>>]
    /\ raised = [i \in Invocations |-> <<>>]
    /\ log = [i \in Invocations |-> <<>>]
    /\ env \in Envs
    /\ phase = "boot"
    /\ exitCode = 0
    /\ config = NoConfig

\* ------------------------------------------------------------ the retry loop
\* lines 257-262
IsRetryable_MutAll(code) == TRUE

IsRetryable_MutNoTimeout(code) ==
    code \in {"OPENAI_RATE_LIMIT", "OPENAI_UPSTREAM_ERROR", "OPENAI_NETWORK_ERROR"}

IsRetryable(code) == code \in RetryableCodes

\* line 264: more attempts are left
MoreAttempts_MutOffByOne(a) == a < maxAttempts

MoreAttempts_MutOne(a) == a < maxAttempts - 2

MoreAttempts(a) == a < maxAttempts - 1

Max(a, b) == IF a >= b THEN a ELSE b

\* lines 265-267, with draw the value of Math.floor(Math.random() * 201)
WaitTime_MutNextIndex(a, draw) == Max(0, baseDelay * (2 ^ (a + 1)) + (draw - JitterOffset))

WaitTime_MutNoOffset(a, draw) == Max(0, baseDelay * (2 ^ a) + draw)

WaitTime(a, draw) == Max(0, baseDelay * (2 ^ a) + (draw - JitterOffset))

\* lines 285-289: the Error thrown to the caller
AugmentedError_MutGeneric(e) ==
    [code |-> "undefined", message |-> e.message, details |-> NoDetails]

AugmentedError(e) == [code |-> e.code, message |-> e.message, details |-> e.details]

\* line 297
FallthroughError == [code |-> "undefined", message |-> MsgFallthrough, details |-> NoDetails]

\* the catch block without `await delay(waitTime)`: the loop goes on at once
CatchBlock_MutNoSleep(i, error, read) ==
    LET a == attempt[i]
        e == toMcpError(error, read)
    IN
    /\ fault' = [fault EXCEPT ![i] = error]
    /\ mcpError' = [mcpError EXCEPT ![i] = e]
    /\ IF IsRetryable(e.code) /\ MoreAttempts(a)
       THEN /\ pc' = [pc EXCEPT ![i] = "delay"]
            /\ log' = [log EXCEPT ![i] = Append(@, Event("fail", a, e.code, 0))]
            /\ UNCHANGED raised
       ELSE /\ pc' = [pc EXCEPT ![i] = "thrown"]
            /\ raised' = [raised EXCEPT ![i] = Append(@, AugmentedError(e))]
            /\ log' = [log EXCEPT ![i] = @ \o
                          <<Event("fail", a, e.code, 0), Event("throw", a, e.code, 0)>>]

\* lines 250-290: the catch block for the caught value error, once
\* toMcpError has settled (having read its body, read, if it is a Response)
CatchBlock(i, error, read) ==
    LET a == attempt[i]
        e == toMcpError(error, read)
    IN
    /\ fault' = [fault EXCEPT ![i] = error]
    /\ mcpError' = [mcpError EXCEPT ![i] = e]
    /\ IF IsRetryable(e.code) /\ MoreAttempts(a)
       THEN \E draw \in RandomDraws :
              /\ pc' = [pc EXCEPT ![i] = "delay"]
              /\ log' = [log EXCEPT ![i] = @ \o
                            <<Event("fail", a, e.code, 0),
                              Event("sleep", a, "", WaitTime(a, draw))>>]
              /\ UNCHANGED raised
       ELSE /\ pc' = [pc EXCEPT ![i] = "thrown"]
            /\ raised' = [raised EXCEPT ![i] = Append(@, AugmentedError(e))]
            /\ log' = [log EXCEPT ![i] = @ \o
                          <<Event("fail", a, e.code, 0), Event("throw", a, e.code, 0)>>]

\* lines 154-171: the loop test, and one iteration up to the await of fetch
LoopTest(i, a) ==
    IF a < maxAttempts
    THEN /\ pc' = [pc EXCEPT ![i] = "fetch"]
         /\ timer' = [timer EXCEPT ![i] = @ \cup {a}]
         /\ elapsed' = [elapsed EXCEPT ![i] = 0]
         /\ log' = [log EXCEPT ![i] = Append(@, Event("call", a, "", 0))]
         /\ UNCHANGED raised
    ELSE /\ pc' = [pc EXCEPT ![i] = "thrown"]
         /\ raised' = [raised EXCEPT ![i] = Append(@, FallthroughError)]
         /\ log' = [log EXCEPT ![i] = Append(@, Event("throw", a, "undefined", 0))]
         /\ UNCHANGED <<timer, elapsed>>

\* lines 97-303: main loads the configuration and exits with code 1 if that
\* fails; otherwise it registers the tool and calls server.start
Main ==
    /\ phase = "boot"
    /\ LET loaded == loadConfig(env) IN
       IF loaded.ok
       THEN /\ config' = loaded.config
            /\ phase' = "starting"
            /\ UNCHANGED exitCode
       ELSE /\ phase' = "exited"
            /\ exitCode' = 1
            /\ UNCHANGED config
    /\ UNCHANGED <<env, invVars>>

\* lines 302-318: server.start settles; the process exits with code 1 if it
\* rejects
StartSettles ==
    /\ phase = "starting"
    /\ \E ok \in BOOLEAN :
         IF ok
         THEN phase' = "started" /\ UNCHANGED exitCode
         ELSE phase' = "exited" /\ exitCode' = 1
    /\ UNCHANGED <<env, config, invVars>>

\* lines 120-122: the parameters schema, z.string().min(1)
ParametersValid_MutAllowEmpty(q) == TRUE

ParametersValid(q) == Len(q) >= 1

\* lines 116-123: a call of the tool whose arguments do not satisfy the
\* registered parameters schema is answered by the framework with a
\* validation failure, and execute is not called
Reject(i) ==
    /\ phase = "started"
    /\ pc[i] = "idle"
    /\ \E q \in Questions : ~ParametersValid(q)
    /\ pc' = [pc EXCEPT ![i] = "rejected"]
    /\ UNCHANGED <<attempt, request, timer, elapsed, fault, mcpError, response,
                   returned, raised, log>>
    /\ UNCHANGED procVars

\* lines 124-171: execute is called with a validated question
Invoke_MutOneBased(i) ==
    /\ phase = "started"
    /\ pc[i] = "idle"
    /\ \E q \in Questions :
         /\ ParametersValid(q)
         /\ request' = [request EXCEPT ![i] =
                        [input |-> q, vector_store_ids |-> <<config.vectorStoreId>>,
                         max_num_results |-> 20]]
    /\ attempt' = [attempt EXCEPT ![i] = 1]
    /\ LoopTest(i, 1)
    /\ UNCHANGED <<fault, mcpError, response, returned>>
    /\ UNCHANGED procVars

Invoke(i) ==
    /\ phase = "started"
    /\ pc[i] = "idle"
    /\ \E q \in Questions :
         /\ ParametersValid(q)
         /\ request' = [request EXCEPT ![i] =
                        [input |-> q, vector_store_ids |-> <<config.vectorStoreId>>,
                         max_num_results |-> 20]]
    /\ attempt' = [attempt EXCEPT ![i] = 0]
    /\ LoopTest(i, 0)
    /\ UNCHANGED <<fault, mcpError, response, returned>>
    /\ UNCHANGED procVars

\* timeoutId kept in one variable shared by all invocations: clearTimeout
\* disarms the timer of every invocation
FetchResolves_MutSharedTimer(i, statuses) ==
    /\ pc[i] = "fetch"
    /\ \E status \in statuses :
         /\ timer' = [j \in Invocations |-> {}]
         /\ IF ResponseOk(status)
            THEN /\ pc' = [pc EXCEPT ![i] = "json"]
                 /\ UNCHANGED fault
            ELSE /\ pc' = [pc EXCEPT ![i] = "text"]
                 /\ fault' = [fault EXCEPT ![i] = ResponseFault(status)]
    /\ UNCHANGED <<attempt, request, elapsed, mcpError, response, returned, raised, log>>
    /\ UNCHANGED procVars

\* lines 162-190, 247-250: fetch resolves with a response of some status
FetchResolves(i, statuses) ==
    /\ pc[i] = "fetch"
    /\ \E status \in statuses :
         /\ timer' = [timer EXCEPT ![i] = @ \ {attempt[i]}]
         /\ IF ResponseOk(status)
            THEN /\ pc' = [pc EXCEPT ![i] = "json"]
                 /\ UNCHANGED fault
            ELSE /\ pc' = [pc EXCEPT ![i] = "text"]
                 /\ fault' = [fault EXCEPT ![i] = ResponseFault(status)]
    /\ UNCHANGED <<attempt, request, elapsed, mcpError, response, returned, raised, log>>
    /\ UNCHANGED procVars

\* lines 247-250: the catch block is entered with a value that is not a
\* Response; `await toMcpError(error)` yields before the rest of the block
Catch(i, error) ==
    /\ fault' = [fault EXCEPT ![i] = error]
    /\ pc' = [pc EXCEPT ![i] = "classify"]
    /\ UNCHANGED <<mcpError, raised, log>>

\* the catch block without its clearTimeout (line 249)
FetchRejects_MutNoClear(i) ==
    /\ pc[i] = "fetch"
    /\ \E e \in NetworkFaults : Catch(i, e)
    /\ UNCHANGED <<attempt, request, timer, elapsed, response, returned>>
    /\ UNCHANGED procVars

\* lines 162, 247-250: fetch rejects with a network fault
FetchRejects(i) ==
    /\ pc[i] = "fetch"
    /\ \E e \in NetworkFaults : Catch(i, e)
    /\ timer' = [timer EXCEPT ![i] = @ \ {attempt[i]}]
    /\ UNCHANGED <<attempt, request, elapsed, response, returned>>
    /\ UNCHANGED procVars

\* line 156, then lines 247-250: the deadline of the attempt passes, the
\* timer aborts the call and fetch rejects with the AbortError
DeadlineFires(i) ==
    /\ pc[i] = "fetch"
    /\ attempt[i] \in timer[i]
    /\ elapsed[i] >= DeadlineTicks
    /\ timer' = [timer EXCEPT ![i] = @ \ {attempt[i]}]
    /\ Catch(i, AbortError)
    /\ UNCHANGED <<attempt, request, elapsed, response, returned>>
    /\ UNCHANGED procVars

\* lines 193-246, and 247-250 when the extraction throws
JsonResolves(i, bodies) ==
    /\ pc[i] = "json"
    /\ \E body \in bodies : \E rnd \in Draws(body) :
         LET x == ExtractChunks(body, rnd) IN
         /\ IF x.err = <<>>
            THEN /\ response' = [response EXCEPT ![i] = body]
                 /\ returned' = [returned EXCEPT ![i] = Append(@, JsonStringify(x.chunks))]
                 /\ pc' = [pc EXCEPT ![i] = "returned"]
                 /\ log' = [log EXCEPT ![i] = Append(@, Event("return", attempt[i], "", 0))]
                 /\ UNCHANGED <<fault, mcpError, raised>>
            ELSE /\ Catch(i, ErrorFault("TypeError", x.err))
                 /\ UNCHANGED <<response, returned>>
    /\ UNCHANGED <<attempt, request, timer, elapsed>>
    /\ UNCHANGED procVars

\* lines 193-194, 247-250: response.json() rejects
JsonRejects(i) ==
    /\ pc[i] = "json"
    /\ \E e \in ParseFaults : Catch(i, e)
    /\ UNCHANGED <<attempt, request, timer, elapsed, response, returned>>
    /\ UNCHANGED procVars

\* lines 250-290: toMcpError(error) settles for a value that is not a
\* Response, and the catch block goes on
ToMcpErrorSettles(i) ==
    /\ pc[i] = "classify"
    /\ CatchBlock(i, fault[i], NoRead)
    /\ UNCHANGED <<attempt, request, timer, elapsed, response, returned>>
    /\ UNCHANGED procVars

\* lines 34-59, 252-290: error.text() settles inside toMcpError
TextSettlesWith(i, read) ==
    /\ pc[i] = "text"
    /\ CatchBlock(i, fault[i], read)
    /\ UNCHANGED <<attempt, request, timer, elapsed, response, returned>>
    /\ UNCHANGED procVars

TextSettles(i) == \E read \in TextReads : TextSettlesWith(i, read)

\* lines 270-271, 154: the backoff delay ends, the loop goes on
SleepElapses(i) ==
    /\ pc[i] = "delay"
    /\ attempt' = [attempt EXCEPT ![i] = @ + 1]
    /\ fault' = [fault EXCEPT ![i] = NoFault]
    /\ mcpError' = [mcpError EXCEPT ![i] = NoError]
    /\ LoopTest(i, attempt[i] + 1)
    /\ UNCHANGED <<request, response, returned>>
    /\ UNCHANGED procVars

\* time passes while the invocation awaits the upstream; an armed timer
\* fires when its deadline is reached, before more time passes
Tick(i) ==
    /\ pc[i] \in {"fetch", "json", "text"}
    /\ elapsed[i] <= DeadlineTicks
    /\ ~(timer[i] # {} /\ elapsed[i] >= DeadlineTicks)
    /\ elapsed' = [elapsed EXCEPT ![i] = @ + 1]
    /\ UNCHANGED <<pc, attempt, request, timer, fault, mcpError, response,
                   returned, raised, log>>
    /\ UNCHANGED procVars

\* one invocation at a time
Single == {1}

Next ==
    \/ Main
    \/ StartSettles
    \/ \E i \in Single :
        \/ Invoke(i)
        \/ Reject(i)
        \/ FetchResolves(i, Statuses)
        \/ FetchRejects(i)
        \/ DeadlineFires(i)
        \/ JsonResolves(i, SampleBodies)
        \/ JsonRejects(i)
        \/ ToMcpErrorSettles(i)
        \/ TextSettles(i)
        \/ SleepElapses(i)
        \/ Tick(i)

Spec == Init /\ [][Next]_vars

\* Timers that are due fire and time passes (the event loop runs every due
\* setTimeout callback, lines 92 and 156), a settled toMcpError resumes the
\* catch block (line 250), and main runs to its end; the upstream and the
\* clients owe no answer and no request.
Fairness ==
    /\ WF_vars(Main)
    /\ WF_vars(StartSettles)
    /\ \A i \in Single :
          /\ WF_vars(DeadlineFires(i))
          /\ WF_vars(SleepElapses(i))
          /\ WF_vars(ToMcpErrorSettles(i))
          /\ WF_vars(Tick(i))

SpecFair == Spec /\ Fairness

\* an upstream that answers every call at once, with a 2xx status and a body
\* that parses
NextBodies ==
    \/ Main
    \/ StartSettles
    \/ \E i \in Single :
        \/ Invoke(i)
        \/ FetchResolves(i, OkStatuses)
        \/ JsonResolves(i, Bodies)
        \/ ToMcpErrorSettles(i)
        \/ SleepElapses(i)

SpecBodies == Init /\ [][NextBodies]_vars

\* two invocations of execute at a time, their steps interleaved; the
\* upstream answers 200 with one body or 400, or lets the deadline pass
Pair == {1, NumInvocations}

PairStatuses == {200, 400}

PairBodies == {BodyObj(Arr(<<ItemObj("file_search_call", Arr(<<FullResult>>))>>))}

NextPair ==
    \/ Main
    \/ StartSettles
    \/ \E i \in Pair :
        \/ Invoke(i)
        \/ FetchResolves(i, PairStatuses)
        \/ DeadlineFires(i)
        \/ JsonResolves(i, PairBodies)
        \/ ToMcpErrorSettles(i)
        \/ TextSettles(i)
        \/ SleepElapses(i)
        \/ Tick(i)

SpecPair == Init /\ [][NextPair]_vars

\* ------------------------------------------------------------ observations
EventsOf(i, ev) == SelectSeq(log[i], LAMBDA e : e.ev = ev)
Calls(i) == Len(EventsOf(i, "call"))
Sleeps(i) == EventsOf(i, "sleep")
Fails(i) == EventsOf(i, "fail")
Terminal(i) == pc[i] \in {"returned", "thrown"}
LastEvent(i) == log[i][Len(log[i])]

\* ------------------------------------------------------------ claims

\* C1: an invocation produces at most one outcome at any time, none before it
\* ends, and once it has ended exactly one: either one returned chunk list or
\* one raised failure that carries an McpError code, never both.
C1_ExactlyOneOutcome ==
    \A i \in Invocations :
        /\ Len(returned[i]) + Len(raised[i]) <= 1
        /\ Terminal(i) <=> (Len(returned[i]) + Len(raised[i]) = 1)
        /\ pc[i] = "returned" <=> Len(returned[i]) = 1
        /\ \A k \in DOMAIN raised[i] : raised[i][k].code \in Codes

C1_Witness ==
    \E i \in Invocations :
        /\ pc[i] = "thrown"
        /\ Calls(i) = 3
        /\ Len(raised[i]) = 1 /\ returned[i] = <<>>

\* C2: at most 3 HTTPS calls are issued by one invocation, and the k-th call
\* is the call of attempt index k-1 (indices 0, 1, 2 in increasing order).
C2_AttemptBudget ==
    \A i \in Invocations :
        LET calls == EventsOf(i, "call") IN
        /\ Len(calls) <= 3
        /\ \A k \in DOMAIN calls : calls[k].attempt = k - 1
        /\ attempt[i] \in 0..2

C2_Witness ==
    \E i \in Invocations : Calls(i) = 3 /\ pc[i] = "fetch" /\ attempt[i] = 2

\* C3: a failure of attempt a with code c is followed by a backoff sleep and
\* then by nothing but the call of attempt a+1 exactly when a < 2 and c is
\* one of the four transient codes; otherwise the failure is followed at once
\* by the throw of that same error, which is the last event: no sleep and no
\* further call.
C3_RetryDecision ==
    \A i \in Invocations : \A k \in DOMAIN log[i] :
        log[i][k].ev = "fail" =>
            LET a == log[i][k].attempt
                c == log[i][k].code
            IN  /\ k < Len(log[i])
                /\ IF a < 2 /\ c \in {"OPENAI_RATE_LIMIT", "OPENAI_UPSTREAM_ERROR",
                                      "OPENAI_NETWORK_ERROR", "OPENAI_TIMEOUT"}
                   THEN /\ log[i][k + 1].ev = "sleep"
                        /\ log[i][k + 1].attempt = a
                        /\ k + 2 <= Len(log[i]) =>
                              /\ log[i][k + 2].ev = "call"
                              /\ log[i][k + 2].attempt = a + 1
                   ELSE /\ k + 1 = Len(log[i])
                        /\ log[i][k + 1].ev = "throw"
                        /\ log[i][k + 1].code = c
                        /\ pc[i] = "thrown"
                        /\ raised[i] = <<[code |-> c, message |-> mcpError[i].message,
                                          details |-> mcpError[i].details]>>

C3_Witness ==
    \E i \in Invocations :
        /\ Len(Fails(i)) = 2
        /\ Fails(i)[1].code = "OPENAI_NETWORK_ERROR"
        /\ Fails(i)[2].code = "INTERNAL_SERVER_ERROR"
        /\ Fails(i)[2].attempt = 1
        /\ pc[i] = "thrown"

\* C4: an invocation that returns does so on the attempt k that succeeded,
\* after exactly k+1 HTTPS calls, and the return is the last event: no call
\* follows a successful attempt.
C4_SuccessStops ==
    \A i \in Invocations : \A j \in DOMAIN log[i] :
        log[i][j].ev = "return" =>
            /\ j = Len(log[i])
            /\ log[i][j].attempt \in 0..2
            /\ Calls(i) = log[i][j].attempt + 1
            /\ pc[i] = "returned"
            /\ Len(returned[i]) = 1

C4_Witness ==
    \E i \in Invocations :
        pc[i] = "returned" /\ Calls(i) = 1 /\ LastEvent(i).attempt = 0

\* C5: when attempt 0 fails with a transient error and attempt 1 succeeds,
\* the invocation has made exactly 2 calls and exactly one backoff sleep, of
\* 400 to 600 ms, between them; it returns the chunk list of the second
\* response and raises nothing.
C5_RetryThenSuccess ==
    \A i \in Invocations :
        (/\ pc[i] = "returned"
         /\ Len(Fails(i)) >= 1
         /\ Fails(i)[1].attempt = 0
         /\ LastEvent(i).attempt = 1)
        => /\ Calls(i) = 2
           /\ Len(Sleeps(i)) = 1
           /\ Sleeps(i)[1].ms >= 400 /\ Sleeps(i)[1].ms <= 600
           /\ Len(log[i]) = 5
           /\ log[i][1].ev = "call" /\ log[i][2].ev = "fail" /\ log[i][3].ev = "sleep"
           /\ log[i][4].ev = "call" /\ log[i][5].ev = "return"
           /\ raised[i] = <<>>
           /\ Len(returned[i]) = 1
           /\ \E rnd \in Draws(response[i]) :
                 returned[i][1] = JsonStringify(ExtractChunks(response[i], rnd).chunks)

C5_Witness ==
    \E i \in Invocations :
        /\ pc[i] = "returned"
        /\ Len(Fails(i)) = 1
        /\ Fails(i)[1].code = "OPENAI_RATE_LIMIT"
        /\ Calls(i) = 2
        /\ Len(returned[i][1]) = 2

\* C6: when all three attempts fail with a transient error the invocation
\* has made exactly 3 calls and exactly 2 sleeps, none after the third
\* failure, and raises one error whose code is the code of the third failure
\* (OPENAI_UPSTREAM_ERROR when the third response had a status >= 500).
C6_BudgetExhausted ==
    \A i \in Invocations :
        (/\ Len(Fails(i)) = 3
         /\ \A k \in 1..3 : Fails(i)[k].code \in
                {"OPENAI_RATE_LIMIT", "OPENAI_UPSTREAM_ERROR",
                 "OPENAI_NETWORK_ERROR", "OPENAI_TIMEOUT"})
        => /\ pc[i] = "thrown"
           /\ Calls(i) = 3
           /\ Len(Sleeps(i)) = 2
           /\ log[i][Len(log[i]) - 1].ev = "fail"
           /\ LastEvent(i).ev = "throw"
           /\ returned[i] = <<>>
           /\ Len(raised[i]) = 1
           /\ raised[i][1].code = Fails(i)[3].code
           /\ (fault[i].kind = "Response" /\ fault[i].status >= 500)
                 => raised[i][1].code = "OPENAI_UPSTREAM_ERROR"

C6_Witness ==
    \E i \in Invocations :
        /\ pc[i] = "thrown"
        /\ Len(Fails(i)) = 3
        /\ \A k \in 1..3 : Fails(i)[k].code = "OPENAI_UPSTREAM_ERROR"
        /\ fault[i].status = 500

\* C7: a call still pending when its attempt's deadline is reached is
\* aborted by the timer of that attempt: the call never stays pending past
\* the deadline, the only timer armed is the one of the current attempt, the
\* abort is classified OPENAI_TIMEOUT and, on attempts 0 and 1, leads to the
\* backoff sleep with nothing raised (the invocation goes on), on attempt 2
\* to the final OPENAI_TIMEOUT; three timeouts give 3 calls.
C7_DeadlineState ==
    \A i \in Invocations :
        /\ timer[i] \subseteq {attempt[i]}
        /\ pc[i] = "fetch" => (elapsed[i] <= DeadlineTicks /\ timer[i] = {attempt[i]})
        /\ (Len(Fails(i)) = 3 /\ \A k \in 1..3 : Fails(i)[k].code = "OPENAI_TIMEOUT")
              => /\ Calls(i) = 3
                 /\ pc[i] = "thrown"
                 /\ raised[i][1].code = "OPENAI_TIMEOUT"

C7_DeadlineStep ==
    \A i \in Invocations :
        /\ DeadlineFires(i) =>
              /\ fault'[i] = AbortError
              /\ timer'[i] = {}
              /\ pc'[i] = "classify"
              /\ \A j \in Invocations \ {i} :
                    pc'[j] = pc[j] /\ timer'[j] = timer[j] /\ raised'[j] = raised[j]
        /\ (pc[i] = "classify" /\ fault[i] = AbortError /\ pc'[i] # "classify") =>
            /\ mcpError'[i].code = "OPENAI_TIMEOUT"
            /\ timer'[i] = {}
            /\ IF attempt[i] < 2
               THEN /\ pc'[i] = "delay"
                    /\ raised'[i] = <<>>
                    /\ returned'[i] = <<>>
               ELSE /\ pc'[i] = "thrown"
                    /\ Len(raised'[i]) = 1
                    /\ raised'[i][1].code = "OPENAI_TIMEOUT"
            /\ \A j \in Invocations \ {i} :
                  pc'[j] = pc[j] /\ timer'[j] = timer[j] /\ raised'[j] = raised[j]

C7_Timeout == [] C7_DeadlineState /\ [][C7_DeadlineStep]_vars

C7_Witness ==
    \E i \in Invocations :
        /\ pc[i] = "thrown"
        /\ Len(Fails(i)) = 3
        /\ \A k \in 1..3 : Fails(i)[k].code = "OPENAI_TIMEOUT"
        /\ elapsed[i] = DeadlineTicks

\* the classification of a status by the claim's rule
C8_CodeOf(s) ==
    IF s = 429 THEN "OPENAI_RATE_LIMIT"
    ELSE IF s >= 500 THEN "OPENAI_UPSTREAM_ERROR"
    ELSE "INTERNAL_SERVER_ERROR"

C8_Classified(i) ==
    LET s == fault[i].status IN
    /\ mcpError[i].code = C8_CodeOf(s)
    /\ mcpError[i].details.kind = "http"
    /\ mcpError[i].details.status = s
    /\ \E read \in TextReads : mcpError[i].details.errorText = ErrorTextOf(read)

\* C8 as stated: a response with a non-2xx status s is classified by s, with
\* details {status: s, errorText}, and a status other than 429 and below 500
\* ends the invocation with INTERNAL_SERVER_ERROR after exactly 1 call,
\* on whichever attempt it occurs.
C8_Original ==
    \A i \in Invocations :
        (fault[i].kind = "Response" /\ mcpError[i] # NoError) =>
            /\ C8_Classified(i)
            /\ mcpError[i].code = "INTERNAL_SERVER_ERROR" =>
                  /\ pc[i] = "thrown"
                  /\ raised[i][1].code = "INTERNAL_SERVER_ERROR"
                  /\ raised[i][1].details.status = fault[i].status
                  /\ Calls(i) = 1

\* C8 amended: the same, except that the invocation ends on the attempt k on
\* which that status occurs, after exactly k+1 calls (1 call when it is the
\* first attempt), with no retry.
C8_StatusClassification ==
    \A i \in Invocations :
        (fault[i].kind = "Response" /\ mcpError[i] # NoError) =>
            /\ C8_Classified(i)
            /\ mcpError[i].code = "INTERNAL_SERVER_ERROR" =>
                  /\ pc[i] = "thrown"
                  /\ raised[i][1].code = "INTERNAL_SERVER_ERROR"
                  /\ raised[i][1].details.status = fault[i].status
                  /\ LastEvent(i).ev = "throw"
                  /\ LastEvent(i).attempt = attempt[i]
                  /\ Calls(i) = attempt[i] + 1

C8_Witness ==
    \E i \in Invocations :
        /\ pc[i] = "thrown"
        /\ fault[i].kind = "Response" /\ fault[i].status = 401
        /\ raised[i][1].details.status = 401
        /\ Calls(i) = 2

\* C9: every error raised carries one of the five codes and has exactly the
\* code, message and details of the McpError classified from the value caught
\* on the last attempt made; the code-less error after the loop is never
\* raised.
C9_StructuredFailure ==
    \A i \in Invocations : \A k \in DOMAIN raised[i] :
        /\ raised[i][k].code \in {"OPENAI_RATE_LIMIT", "OPENAI_UPSTREAM_ERROR",
                                  "OPENAI_NETWORK_ERROR", "OPENAI_TIMEOUT",
                                  "INTERNAL_SERVER_ERROR"}
        /\ mcpError[i] # NoError
        /\ raised[i][k].code = mcpError[i].code
        /\ raised[i][k].message = mcpError[i].message
        /\ raised[i][k].details = mcpError[i].details
        /\ raised[i][k].message # MsgFallthrough
        /\ fault[i] # NoFault
        /\ \E read \in TextReads : mcpError[i] = toMcpError(fault[i], read)
        /\ Fails(i)[Len(Fails(i))].attempt = attempt[i]
        /\ Calls(i) = attempt[i] + 1
        /\ LastEvent(i).ev = "throw" /\ LastEvent(i).code = raised[i][k].code

C9_Witness ==
    \E i \in Invocations :
        /\ pc[i] = "thrown"
        /\ Calls(i) = 3
        /\ raised[i][1].code = "OPENAI_RATE_LIMIT"
        /\ raised[i][1].details.kind = "http"

\* the output items the claim selects, and the position of their chunks
C10_Selected(item) ==
    item.t = "obj" /\ item.type = "file_search_call" /\ item.results.t = "arr"

C10_Items(body) ==
    IF body.t = "obj" /\ body.output.t = "arr" THEN body.output.items ELSE <<>>

RECURSIVE C10_Before(_, _)
C10_Before(items, j) ==
    IF j <= 1 THEN 0
    ELSE C10_Before(items, j - 1)
         + (IF C10_Selected(items[j - 1]) THEN Len(items[j - 1].results.items) ELSE 0)

\* C10: the list returned for a response is the in-order concatenation, over
\* the output items of type file_search_call whose results is a sequence, of
\* one chunk per result item: id, text and score copied when present, a
\* generated token, "" and 0 otherwise; its length is the number of such
\* result items, 0 when there is none or no output.
C10_ChunkList ==
    \A i \in Invocations :
        pc[i] = "returned" =>
            LET items == C10_Items(response[i])
                out == returned[i][1]
            IN  /\ Len(out) = C10_Before(items, Len(items) + 1)
                /\ \A j \in DOMAIN items :
                      C10_Selected(items[j]) =>
                          \A k \in DOMAIN items[j].results.items :
                              LET r == items[j].results.items[k]
                                  c == out[C10_Before(items, j) + k]
                              IN  /\ c[1][1] = "id"
                                  /\ IF r.id.t = "val" THEN c[1][2] = r.id.v
                                                       ELSE c[1][2] \in Tokens
                                  /\ c[2] = <<"text", IF r.text.t = "val" THEN r.text.v ELSE "">>
                                  /\ c[3] = <<"score", IF r.score.t = "val" THEN r.score.v ELSE 0>>

C10_Witness ==
    \E i \in Invocations :
        /\ pc[i] = "returned"
        /\ Len(response[i].output.items) = 2
        /\ response[i].output.items[1].type = "message"
        /\ response[i].output.items[2].results.items = <<EmptyResult, FullResult>>
        /\ Len(returned[i][1]) = 2

\* C11: every backoff sleep follows the failure of the attempt whose index
\* it uses, and lasts max(0, 500 * 2^a + jitter) ms for an integer jitter of
\* -100..100: never negative, 400..600 ms after attempt 0 and 900..1100 ms
\* after attempt 1.
C11_BackoffWait ==
    \A i \in Invocations : \A k \in DOMAIN log[i] :
        log[i][k].ev = "sleep" =>
            LET a == log[i][k].attempt
                ms == log[i][k].ms
            IN  /\ ms >= 0
                /\ \E jitter \in -100..100 : ms = Max(0, 500 * (2 ^ a) + jitter)
                /\ a \in {0, 1}
                /\ a = 0 => ms >= 400 /\ ms <= 600
                /\ a = 1 => ms >= 900 /\ ms <= 1100
                /\ k > 1
                /\ log[i][k - 1].ev = "fail"
                /\ log[i][k - 1].attempt = a

C11_Witness ==
    \E i \in Invocations :
        /\ Len(Sleeps(i)) = 2
        /\ Sleeps(i)[1].attempt = 0 /\ Sleeps(i)[1].ms = 500
        /\ Sleeps(i)[2].attempt = 1 /\ Sleeps(i)[2].ms = 1100

\* C12: a request whose question is the empty string is rejected before
\* execute runs: a rejected request has made no HTTPS call and has started no
\* attempt, timer or backoff, it stays rejected, and no request body ever
\* carries an empty question.
C12_RejectedState ==
    \A i \in Invocations :
        /\ pc[i] = "rejected" =>
              /\ log[i] = <<>>
              /\ Calls(i) = 0
              /\ Sleeps(i) = <<>>
              /\ timer[i] = {}
              /\ attempt[i] = 0
              /\ elapsed[i] = 0
              /\ request[i] = NoRequest
              /\ returned[i] = <<>>
              /\ raised[i] = <<>>
        /\ log[i] # <<>> => request[i].input # ""

C12_RejectedStep ==
    \A i \in Invocations : pc[i] = "rejected" => pc'[i] = "rejected"

C12_EmptyQuestion == [] C12_RejectedState /\ [][C12_RejectedStep]_vars

C12_Witness ==
    \E i \in Invocations : pc[i] = "rejected"

\* C13: the server is starting or started only when config.json holds a
\* string vectorStoreId that starts with "vs_" and OPENAI_API_KEY is a
\* non-empty string, and the configuration in use holds these two values; a
\* process whose configuration does not load, or whose server start fails,
\* exits with a nonzero code; no invocation of retrieveDocs is executed
\* unless the server is started, and none after the process has exited.
C13_ValidEnv ==
    LET id == env.file.vectorStoreId
        key == env.OPENAI_API_KEY
    IN  /\ env.file.t = "json"
        /\ id.t = "val"
        /\ Len(id.v) >= 3
        /\ id.v[1] = "v" /\ id.v[2] = "s" /\ id.v[3] = "_"
        /\ key.t = "val"
        /\ key.v # ""

C13_StartupState ==
    /\ phase \in {"starting", "started"} =>
          /\ C13_ValidEnv
          /\ config.vectorStoreId = env.file.vectorStoreId.v
          /\ config.openaiApiKey = env.OPENAI_API_KEY.v
          /\ exitCode = 0
    /\ phase = "exited" => exitCode # 0
    /\ ~C13_ValidEnv => phase \in {"boot", "exited"}
    /\ phase # "started" =>
          \A i \in Invocations : pc[i] = "idle" /\ log[i] = <<>> /\ request[i] = NoRequest

C13_StartupStep ==
    /\ phase = "boot" /\ ~C13_ValidEnv => phase' = "exited" /\ exitCode' # 0
    /\ phase = "starting" /\ phase' # "starting" =>
          \/ phase' = "started"
          \/ phase' = "exited" /\ exitCode' # 0
    /\ phase = "exited" => UNCHANGED vars
    /\ phase' = "started" => phase \in {"starting", "started"}

C13_Startup == [] C13_StartupState /\ [][C13_StartupStep]_vars

C13_Witness ==
    /\ phase = "exited"
    /\ exitCode = 1
    /\ config.vectorStoreId = vectorStoreId
    /\ \A i \in Invocations : log[i] = <<>>

\* the caught value of invocation i is a generic fault (an Error other than
\* the cancellation signal) and the catch block has classified it
C14_Generic(i) ==
    /\ fault[i].kind = "Error"
    /\ fault[i].name # "AbortError"
    /\ mcpError[i] # NoError

\* every generic fault that is not OPENAI_NETWORK_ERROR is
\* INTERNAL_SERVER_ERROR, and its failure is followed at once by the throw
C14_OthersNotRetried(i) ==
    mcpError[i].code # "OPENAI_NETWORK_ERROR" =>
        /\ mcpError[i].code = "INTERNAL_SERVER_ERROR"
        /\ pc[i] = "thrown"
        /\ Len(log[i]) >= 2
        /\ log[i][Len(log[i]) - 1].ev = "fail"
        /\ log[i][Len(log[i])].ev = "throw"
        /\ Calls(i) = attempt[i] + 1

\* C14 as stated: a generic fault is classified OPENAI_NETWORK_ERROR if and
\* only if its message contains "fetch failed"; every other generic fault is
\* INTERNAL_SERVER_ERROR and is not retried.
C14_Original ==
    \A i \in Invocations :
        C14_Generic(i) =>
            /\ mcpError[i].code = "OPENAI_NETWORK_ERROR"
                  <=> Includes(fault[i].message, FetchFailed)
            /\ C14_OthersNotRetried(i)

\* C14: a generic fault is classified OPENAI_NETWORK_ERROR if and only if
\* its message contains "fetch failed" or its name is TypeError; every other
\* generic fault is INTERNAL_SERVER_ERROR and is not retried.
C14_GenericClassification ==
    \A i \in Invocations :
        C14_Generic(i) =>
            /\ mcpError[i].code = "OPENAI_NETWORK_ERROR"
                  <=> (\/ Includes(fault[i].message, FetchFailed)
                       \/ fault[i].name = "TypeError")
            /\ C14_OthersNotRetried(i)

C14_Witness ==
    \E i \in Invocations :
        /\ C14_Generic(i)
        /\ fault[i].name = "TypeError"
        /\ ~Includes(fault[i].message, FetchFailed)
        /\ mcpError[i].code = "OPENAI_NETWORK_ERROR"
        /\ pc[i] = "delay"

\* C15: when every response has a 2xx status and a body that parses as
\* JSON, no attempt fails whatever the shape of the body: the first attempt
\* returns the chunks of the well-formed items, nothing is raised, and there
\* is no sleep and no second call.
C15_NoShapeFailure ==
    \A i \in Invocations :
        /\ Fails(i) = <<>>
        /\ Sleeps(i) = <<>>
        /\ Calls(i) <= 1
        /\ raised[i] = <<>>
        /\ pc[i] \in {"idle", "fetch", "json", "returned"}
        /\ pc[i] = "returned" =>
              /\ attempt[i] = 0
              /\ \E rnd \in Draws(response[i]) :
                    returned[i] = <<JsonStringify(ExtractChunks(response[i], rnd).chunks)>>

\* C16: while an attempt awaits the upstream (the response, the body of a
\* 2xx response, or the body of an error response) its deadline timer is
\* armed, and it is never still waiting after the deadline has passed.
C16_DeadlineInForce ==
    \A i \in Invocations :
        pc[i] \in {"fetch", "json", "text"} =>
            /\ attempt[i] \in timer[i]
            /\ elapsed[i] <= DeadlineTicks

\* C17: with timers and time fair, every invocation that execute has
\* started eventually returns or throws, whatever the upstream does.
C17_Termination ==
    \A i \in Invocations :
        (pc[i] \in {"fetch", "json", "text", "classify", "delay"}) ~> Terminal(i)

\* C18: every chunk of every returned list has a non-empty id, which is
\* the id of its result item when that item has one and a generated fallback
\* token otherwise.
C18_NonEmptyId ==
    \A i \in Invocations : \A k \in DOMAIN returned[i] :
        LET out == returned[i][k]
            items == C10_Items(response[i])
        IN  /\ \A n \in DOMAIN out : out[n][1][1] = "id" /\ out[n][1][2] # ""
            /\ \A j \in DOMAIN items :
                  C10_Selected(items[j]) =>
                      \A m \in DOMAIN items[j].results.items :
                          LET r == items[j].results.items[m]
                              id == out[C10_Before(items, j) + m][1][2]
                          IN  IF r.id.t = "val" THEN id = r.id.v ELSE id \in Tokens

\* C19: the message of every error raised to the caller is non-empty, and
\* a generic fault whose message is empty is classified with the default
\* message of its kind.
C19_DefaultMessage ==
    \A i \in Invocations :
        /\ \A k \in DOMAIN raised[i] : raised[i][k].message # <<>>
        /\ (C14_Generic(i) /\ fault[i].message = <<>>) =>
              /\ mcpError[i].code = "OPENAI_NETWORK_ERROR" =>
                    mcpError[i].message = MsgNetworkDefault
              /\ mcpError[i].code = "INTERNAL_SERVER_ERROR" =>
                    mcpError[i].message = MsgServerDefault

\* C20: when the body of a non-2xx response cannot be read, the catch block
\* still ends in one step with the error its status alone determines: the
\* code of that status, details holding the status and the placeholder text,
\* a backoff sleep exactly when the status is 429 or at least 500 and the
\* attempt is not the last, otherwise the throw of that error; a readable
\* body would have given the same code.
C20_ReadFailureStep ==
    \A i \in Invocations :
        TextSettlesWith(i, TextRead(FALSE, <<>>)) =>
            LET status == fault[i].status
                e == mcpError'[i]
            IN  /\ e.code = C8_CodeOf(status)
                /\ e.details = [kind |-> "http", status |-> status,
                                errorText |-> <<"Could not read error response body.">>]
                /\ \A read \in TextReads : toMcpError(fault[i], read).code = e.code
                /\ pc'[i] \in {"delay", "thrown"}
                /\ pc'[i] = "delay" <=> ((status = 429 \/ status >= 500) /\ attempt[i] < 2)
                /\ pc'[i] = "delay" => raised'[i] = raised[i]
                /\ pc'[i] = "thrown" =>
                      raised'[i] = Append(raised[i],
                          [code |-> e.code, message |-> e.message, details |-> e.details])

C20_BodyReadFailure == [][C20_ReadFailureStep]_vars

C20_Witness ==
    \E i \in Invocations :
        /\ fault[i].kind = "Response"
        /\ fault[i].status = 503
        /\ mcpError[i].code = "OPENAI_UPSTREAM_ERROR"
        /\ mcpError[i].details.errorText = BodyPlaceholder
        /\ pc[i] = "delay"

\* the HTTPS calls of invocation i that have been issued and whose failure
\* or return has not been recorded yet
C21_InFlight(i) == Calls(i) - Len(Fails(i)) - Len(EventsOf(i, "return"))

\* C21: at most one HTTPS call of an invocation is in flight, and only while
\* the invocation awaits the upstream or the classification of the fault
\* that ended the call; the first event is the call of
\* attempt 0, and the call of attempt a+1 comes directly after the events
\* call(a), fail(a) with a transient code, sleep(a). A call is issued only
\* by an invocation that was idle or whose backoff sleep has just ended.
C21_OrderState ==
    \A i \in Invocations :
        /\ C21_InFlight(i) \in {0, 1}
        /\ C21_InFlight(i) = 1 <=> pc[i] \in {"fetch", "json", "text", "classify"}
        /\ \A k \in DOMAIN log[i] :
              log[i][k].ev = "call" =>
                  LET a == log[i][k].attempt IN
                  IF k = 1 THEN a = 0
                  ELSE /\ a >= 1
                       /\ k >= 4
                       /\ log[i][k - 3].ev = "call" /\ log[i][k - 3].attempt = a - 1
                       /\ log[i][k - 2].ev = "fail" /\ log[i][k - 2].attempt = a - 1
                       /\ log[i][k - 2].code \in
                              {"OPENAI_RATE_LIMIT", "OPENAI_UPSTREAM_ERROR",
                               "OPENAI_NETWORK_ERROR", "OPENAI_TIMEOUT"}
                       /\ log[i][k - 1].ev = "sleep" /\ log[i][k - 1].attempt = a - 1

C21_OrderStep ==
    \A i \in Invocations :
        LET before == Len(SelectSeq(log[i], LAMBDA e : e.ev = "call"))
            after == Len(SelectSeq(log'[i], LAMBDA e : e.ev = "call"))
        IN  after # before =>
                /\ after = before + 1
                /\ pc[i] \in {"idle", "delay"}
                /\ pc'[i] = "fetch"
                /\ pc[i] = "delay" => log[i][Len(log[i])].ev = "sleep"
                /\ attempt'[i] = before

C21_Sequential == [] C21_OrderState /\ [][C21_OrderStep]_vars

C21_Witness ==
    \E i \in Invocations :
        /\ Len(log[i]) = 7
        /\ log[i][5].ev = "fail" /\ log[i][5].code = "OPENAI_TIMEOUT"
        /\ log[i][6].ev = "sleep"
        /\ log[i][7].ev = "call" /\ log[i][7].attempt = 2
        /\ C21_InFlight(i) = 1

\* everything invocation i owns
C22_Local(i) ==
    <<pc[i], attempt[i], request[i], timer[i], elapsed[i], fault[i],
      mcpError[i], response[i], returned[i], raised[i], log[i]>>

\* the position, attempt counter, timer, request body, calls, sleeps and
\* outcome of invocation i are those its own events determine
C22_OwnHistory(i) ==
    LET n == Len(log[i]) IN
    /\ timer[i] \subseteq {attempt[i]}
    /\ IF n = 0
       THEN /\ pc[i] \in {"idle", "rejected"}
            /\ C22_Local(i) = <<pc[i], 0, NoRequest, {}, 0, NoFault, NoError, NoBody,
                                 <<>>, <<>>, <<>>>>
       ELSE LET last == log[i][n] IN
            /\ request[i].vector_store_ids = <<config.vectorStoreId>>
            /\ request[i].input \in Questions \ {""}
            /\ Calls(i) = attempt[i] + 1
            /\ Len(Fails(i)) = Len(Sleeps(i)) + (IF last.ev = "throw" THEN 1 ELSE 0)
            /\ last.attempt = attempt[i]
            /\ last.ev \in {"call", "sleep", "return", "throw"}
            /\ last.ev = "call" =>
                  /\ pc[i] \in {"fetch", "json", "text", "classify"}
                  /\ Len(Sleeps(i)) = attempt[i]
                  /\ returned[i] = <<>> /\ raised[i] = <<>>
            /\ last.ev = "sleep" =>
                  /\ pc[i] = "delay"
                  /\ Len(Sleeps(i)) = attempt[i] + 1
                  /\ returned[i] = <<>> /\ raised[i] = <<>>
            /\ last.ev = "return" =>
                  /\ pc[i] = "returned"
                  /\ Len(Sleeps(i)) = attempt[i]
                  /\ Len(returned[i]) = 1 /\ raised[i] = <<>>
            /\ last.ev = "throw" =>
                  /\ pc[i] = "thrown"
                  /\ Len(Sleeps(i)) = attempt[i]
                  /\ returned[i] = <<>>
                  /\ Len(raised[i]) = 1 /\ raised[i][1].code = last.code

C22_IndependentState == \A i \in Invocations : C22_OwnHistory(i)

\* a step changes what at most one invocation owns, and no step of an
\* invocation changes the configuration or the process state
C22_IndependentStep ==
    /\ \E i \in Invocations :
          \A j \in Invocations \ {i} : C22_Local(j)' = C22_Local(j)
    /\ (\E i \in Invocations : C22_Local(i)' # C22_Local(i)) =>
          /\ phase = "started"
          /\ UNCHANGED procVars

\* C22: with two invocations interleaved, every step changes the state of
\* at most one of them and leaves the configuration alone, and the position,
\* attempt counter, timer, request body, calls, sleeps and outcome of each
\* invocation are determined by its own events.
C22_Independent == [] C22_IndependentState /\ [][C22_IndependentStep]_vars

C22_Witness ==
    /\ pc[1] = "thrown"
    /\ Calls(1) = 2
    /\ Fails(1)[1].code = "OPENAI_TIMEOUT"
    /\ raised[1][1].code = "INTERNAL_SERVER_ERROR"
    /\ pc[NumInvocations] = "returned"
    /\ Calls(NumInvocations) = 3

\* C23: an invocation has at most one armed deadline timer, which is the
\* timer of its current attempt and is armed only while fetch is awaited:
\* none is armed during a backoff sleep, nor once the invocation has
\* returned or thrown.
C23_NoTimerLeak ==
    \A i \in Invocations :
        /\ Cardinality(timer[i]) <= 1
        /\ \A a \in timer[i] : a = attempt[i] /\ pc[i] = "fetch"
        /\ pc[i] \in {"delay", "returned", "thrown"} => timer[i] = {}

C23_Witness ==
    \E i \in Invocations :
        /\ pc[i] = "thrown"
        /\ timer[i] = {}
        /\ Len(Fails(i)) = 3
        /\ Fails(i)[1].code = "OPENAI_NETWORK_ERROR"
        /\ Fails(i)[2].code = "OPENAI_TIMEOUT"
        /\ Fails(i)[3].code = "OPENAI_RATE_LIMIT"

====
